---------------------------- MODULE Spec2Model ----------------------------
(***************************************************************************)
(* Configuration resolution, lead qualification and bounded-retry          *)
(* enrichment of the lead-generation functions (src/functions).            *)
(*                                                                         *)
(* Conventions                                                             *)
(*  - Python strings are sequences of symbols (a symbol is a word or a     *)
(*    punctuation character); '' is << >>.                                 *)
(*  - Optional[T] is a set with at most one element: None is {} and a      *)
(*    present value v is {v}.                                              *)
(*  - Each sub-system has its own specification over the shared variable   *)
(*    tuple; the variables of the other sub-systems stay at their idle     *)
(*    values.                                                              *)
(***************************************************************************)
EXTENDS Integers, Sequences, FiniteSets, TLC

VARIABLES
    cfg_pc,         \* "input" | "resolved"
    cfg_global,     \* GlobalConfig: domain -> domain object
    cfg_project,    \* ProjectConfig: [use_global, override]
    cfg_effective,  \* EffectiveProjectConfig: domain -> Optional[domain object]
    nm_pc,          \* "input" | "once" | "twice"
    nm_in,          \* company_name passed to _normalize_company_name
    nm_once,        \* its normalization
    nm_twice,       \* the normalization of nm_once
    db_leads,       \* the project's documents of the 'leads' collection, by creation
    leadCount,      \* projects/<id>.leadCount
    blacklist,      \* blacklist/emails.list
    project_blacklist, \* blacklist/project_<project_id>.list
    fl_pc,          \* find_leads_logic: "idle" | "filtered" | "returned"
    fl_cfg,         \* effective_config.lead_filter of the invocation
    fl_people,      \* apollo_results['people'] of the invocation
    fl_processed,   \* processed_leads
    fl_existing,    \* existing_leads
    fl_filtered,    \* filtered_leads
    fl_unique,      \* unique_leads
    fl_fault,       \* the read of the invocation on which the document store failed, or "none"
    fl_written,     \* the lead documents the invocation has persisted
    fl_result,      \* 'success' of the dictionary returned: "none" | "success" | "failure"
    en_pc,          \* enrich_leads_logic: "idle" | "attempt" | "update" | "commit" | "done"
    en_max_retries, \* effective_config.enrichment.max_retries
    en_type,        \* enrichment_type
    en_force,       \* force_re_enrich
    en_queue,       \* leads_to_enrich, as ids of lead documents
    en_i,           \* position in leads_to_enrich of the lead being processed
    en_attempts,    \* enrichment_attempts
    en_success,     \* enrichment_success
    en_error,       \* enrichment_error
    en_trace,       \* what the research collaborator did for the lead being processed
    en_batch,       \* the updates set in the write batch, each with the lead's trace
    en_result,      \* the dictionary returned
    ft_pc,          \* apply_lead_filters called directly: "loop" | "done"
    ft_leads,       \* leads
    ft_cfg,         \* filter_config
    ft_existing,    \* existing_leads
    ft_blacklist,   \* blacklisted_emails
    ft_i,           \* position in leads of the lead the loop is at
    ft_tracker,     \* company_tracker
    ft_filtered,    \* filtered_leads
    ft_stages,      \* for each lead handled, the stage that dropped it or "accept"
    vd_pc,          \* validate_enrichment_data called directly: "call" | "done"
    vd_text,        \* text_to_validate, as what the function measures on it
    vd_result,      \* the value returned
    up_store,       \* the configuration documents of the store
    up_result,      \* what the last update operation returned
    fu_leads,       \* the lead documents that the follow-up operations work on
    fu_max,         \* settings/global.maxFollowups
    cc_pc,          \* concurrent find_leads_logic invocations: "idle" | "read" | "committed" | "done"
    cc_existing,    \* existing_leads of each invocation
    cc_unique,      \* unique_leads of each invocation
    cc_written      \* the lead documents each invocation has persisted

cfgVars == <<cfg_pc, cfg_global, cfg_project, cfg_effective>>

nmVars == <<nm_pc, nm_in, nm_once, nm_twice>>

dbVars == <<db_leads, leadCount, blacklist, project_blacklist>>

flVars == <<fl_pc, fl_cfg, fl_people, fl_processed, fl_existing, fl_filtered, fl_unique, fl_fault, fl_written,
            fl_result>>

enVars == <<en_pc, en_max_retries, en_type, en_force, en_queue, en_i, en_attempts, en_success, en_error,
            en_trace, en_batch, en_result>>

ftVars == <<ft_pc, ft_leads, ft_cfg, ft_existing, ft_blacklist, ft_i, ft_tracker, ft_filtered,
            ft_stages>>

vdVars == <<vd_pc, vd_text, vd_result>>

upVars == <<up_store, up_result>>

fuVars == <<fu_leads, fu_max>>

ccVars == <<cc_pc, cc_existing, cc_unique, cc_written>>

vars == <<cfgVars, nmVars, dbVars, flVars, enVars, ftVars, vdVars, upVars, fuVars, ccVars>>

None == {}

Some(v) == {v}

(***************************************************************************)
(* Strings                                                                 *)
(***************************************************************************)

\* str.lower() of one symbol
LowerSym(c) ==
    CASE c = "Acme" -> "acme"
      [] c = "Inc" -> "inc"
      [] c = "The" -> "the"
      [] c = "A" -> "a"
      [] c = "B" -> "b"
      [] c = "Info" -> "info"
      [] c = "Foo" -> "foo"
      [] c = "Globex" -> "globex"
      [] OTHER -> c

\* str.lower()
Lower(s) == [i \in 1..Len(s) |-> LowerSym(s[i])]

\* the whitespace symbols removed by str.strip()
Whitespace == {" "}

RECURSIVE LStrip(_)
\* str.lstrip()
LStrip(s) == IF s # << >> /\ Head(s) \in Whitespace THEN LStrip(Tail(s)) ELSE s

RECURSIVE RStrip(_)
\* str.rstrip()
RStrip(s) ==
    IF s # << >> /\ s[Len(s)] \in Whitespace THEN RStrip(SubSeq(s, 1, Len(s) - 1)) ELSE s

\* str.strip()
Strip(s) == RStrip(LStrip(s))

\* s.startswith(p)
StartsWith(s, p) == Len(s) >= Len(p) /\ SubSeq(s, 1, Len(p)) = p

\* s.endswith(p)
EndsWith(s, p) == Len(s) >= Len(p) /\ SubSeq(s, Len(s) - Len(p) + 1, Len(s)) = p

\* s[n:]
DropFirst(s, n) == SubSeq(s, n + 1, Len(s))

\* s[:-n]
DropLast(s, n) == SubSeq(s, 1, Len(s) - n)

\* the strings of at most n symbols over alphabet A
StrsUpTo(A, n) == UNION {[1..k -> A] : k \in 0..n}

(***************************************************************************)
(* config_model.py: two-tier configuration                                 *)
(***************************************************************************)

\* the five overridable domains of ProjectConfig
Domains == {"lead_filter", "job_roles", "enrichment", "email_generation", "scheduling"}

\* largest value of a field of a domain object
MaxField == 1

\* at most this many domains of the global configuration differ from the defaults
MaxGlobalChanged == 1

\* at most this many domains of a project carry a flag or an override
MaxOverridden == 2

\* a domain dataclass, reduced to two of its fields
DomainObjs == [f1 : 0..MaxField, f2 : 0..MaxField]

\* the dataclass defaults of a domain
DefaultObj == [f1 |-> 0, f2 |-> 0]

\* GlobalConfig(): every domain built by its default factory
DefaultGlobalConfig == [d \in Domains |-> DefaultObj]

\* ProjectConfig(project_id): flags True, overrides None
DefaultProjectConfig ==
    [use_global |-> [d \in Domains |-> TRUE], override |-> [d \in Domains |-> None]]

GlobalConfigs ==
    {g \in [Domains -> DomainObjs] :
        Cardinality({d \in Domains : g[d] # DefaultObj}) <= MaxGlobalChanged}

ProjectConfigs ==
    {p \in [use_global : [Domains -> BOOLEAN],
            override : [Domains -> {None} \cup {Some(o) : o \in DomainObjs}]] :
        Cardinality({d \in Domains :
            ~p.use_global[d] \/ p.override[d] # None}) <= MaxOverridden}

\* a field-by-field merge of an override into the global domain
get_effective_config_merged(p, g) ==
    [d \in Domains |->
        IF p.use_global[d] THEN Some(g[d])
        ELSE IF p.override[d] = None THEN None
        ELSE LET o == CHOOSE x \in p.override[d] : TRUE
             IN Some([f1 |-> o.f1, f2 |-> g[d].f2])]

\* ProjectConfig.get_effective_config
get_effective_config(p, g) ==
    [d \in Domains |-> IF p.use_global[d] THEN Some(g[d]) ELSE p.override[d]]

IdleConfig ==
    /\ cfg_pc = "idle"
    /\ cfg_global = DefaultGlobalConfig
    /\ cfg_project = DefaultProjectConfig
    /\ cfg_effective = [d \in Domains |-> None]

IdleNorm ==
    /\ nm_pc = "idle"
    /\ nm_in = << >>
    /\ nm_once = << >>
    /\ nm_twice = << >>

\* LeadFilterConfig(): the dataclass defaults
DefaultLeadFilter ==
    [one_person_per_company |-> TRUE, require_email |-> TRUE, exclude_blacklisted |-> TRUE,
     min_company_size |-> None, max_company_size |-> None]

IdleDb ==
    /\ db_leads = << >>
    /\ leadCount = 0
    /\ blacklist = {}
    /\ project_blacklist = {}

IdleFind ==
    /\ fl_pc = "idle"
    /\ fl_cfg = DefaultLeadFilter
    /\ fl_people = << >>
    /\ fl_processed = << >>
    /\ fl_existing = << >>
    /\ fl_filtered = << >>
    /\ fl_unique = << >>
    /\ fl_fault = "none"
    /\ fl_written = << >>
    /\ fl_result = "none"

\* no call made, no response seen
NoTrace == [calls |-> 0, passed |-> FALSE, late |-> 0, failures |-> 0, last |-> "none"]

NoResult ==
    [success |-> FALSE, kind |-> "none", leads_processed |-> None, leads_enriched |-> None,
     leads_failed |-> None]

IdleEnrich ==
    /\ en_pc = "idle"
    /\ en_max_retries = 3
    /\ en_type = "both"
    /\ en_force = FALSE
    /\ en_queue = << >>
    /\ en_i = 1
    /\ en_attempts = 0
    /\ en_success = FALSE
    /\ en_error = None
    /\ en_trace = NoTrace
    /\ en_batch = << >>
    /\ en_result = NoResult

IdleFilter ==
    /\ ft_pc = "idle"
    /\ ft_leads = << >>
    /\ ft_cfg = DefaultLeadFilter
    /\ ft_existing = << >>
    /\ ft_blacklist = {}
    /\ ft_i = 1
    /\ ft_tracker = {}
    /\ ft_filtered = << >>
    /\ ft_stages = << >>

IdleValidate ==
    /\ vd_pc = "idle"
    /\ vd_text = [length |-> 0, generic |-> FALSE, words |-> 0, unique |-> 0, segments |-> 1]
    /\ vd_result = FALSE

\* the stored configuration after initialisation, with a project location
DefaultStore ==
    [lead_filter |-> [min_company_size |-> None, max_company_size |-> None],
     enrichment |-> [max_retries |-> 3],
     job_roles |-> [target_roles |-> {"CEO", "CTO"}, custom_roles |-> {}],
     location |-> [raw_location |-> <<"berlin">>]]

IdleUpdate ==
    /\ up_store = DefaultStore
    /\ up_result = [op |-> "none", success |-> TRUE, valid |-> TRUE]

\* the invocations that can run at the same time
Procs == {1, 2}

IdleFollowup ==
    /\ fu_leads = << >>
    /\ fu_max = 3

IdleConcurrent ==
    /\ cc_pc = [p \in Procs |-> "idle"]
    /\ cc_existing = [p \in Procs |-> << >>]
    /\ cc_unique = [p \in Procs |-> << >>]
    /\ cc_written = [p \in Procs |-> << >>]

InitConfig ==
    /\ cfg_pc = "input"
    /\ cfg_global \in GlobalConfigs
    /\ cfg_project \in ProjectConfigs
    /\ cfg_effective = [d \in Domains |-> None]
    /\ IdleNorm
    /\ IdleDb
    /\ IdleFind
    /\ IdleEnrich
    /\ IdleFilter
    /\ IdleValidate
    /\ IdleUpdate
    /\ IdleFollowup
    /\ IdleConcurrent

\* effective_config = project_config.get_effective_config(global_config)
GetEffectiveConfig ==
    /\ cfg_pc = "input"
    /\ cfg_effective' = get_effective_config(cfg_project, cfg_global)
    /\ cfg_pc' = "resolved"
    /\ UNCHANGED <<cfg_global, cfg_project, nmVars, dbVars, flVars, enVars, ftVars, vdVars, upVars, fuVars, ccVars>>

NextConfig == GetEffectiveConfig

SpecConfig == InitConfig /\ [][NextConfig]_vars

\* C1: when use_global_D is false and the override of D is None, the
\* effective configuration's D equals the global D (never None).
C1_ConfigFallback ==
    cfg_pc = "resolved" =>
        \A d \in Domains :
            (~cfg_project.use_global[d] /\ cfg_project.override[d] = None)
                => cfg_effective[d] = Some(cfg_global[d])

\* C2: an override that is present replaces the whole domain (no field of
\* the global domain survives), and every domain whose flag is true is the
\* global domain.
C2_WholeDomainReplacement ==
    cfg_pc = "resolved" =>
        \A d \in Domains :
            /\ (~cfg_project.use_global[d] /\ cfg_project.override[d] # None)
                    => cfg_effective[d] = cfg_project.override[d]
            /\ cfg_project.use_global[d] => cfg_effective[d] = Some(cfg_global[d])

\* a resolved project with one overridden domain that differs from the global
\* domain in one field only, and another domain left global
C2_Witness ==
    /\ cfg_pc = "resolved"
    /\ \E d, e \in Domains :
        /\ ~cfg_project.use_global[d]
        /\ \E o \in cfg_project.override[d] :
                o.f1 = cfg_global[d].f1 /\ o.f2 # cfg_global[d].f2
        /\ cfg_effective[d] = cfg_project.override[d]
        /\ cfg_project.use_global[e]
        /\ cfg_effective[e] = Some(cfg_global[e])

(***************************************************************************)
(* utils/data_processing.py: company-name normalization                    *)
(***************************************************************************)

\* suffixes, in the order of the list
suffixes == <<"inc", "corp", "corporation", "llc", "ltd", "limited", "co", "company">>

\* prefixes
prefixes == <<<<"the", " ">>>>

\* patterns = [f' {suffix}', f' {suffix}.', f', {suffix}', f', {suffix}.']
Patterns(suffix) ==
    << <<" ", suffix>>, <<" ", suffix, ".">>, <<",", " ", suffix>>, <<",", " ", suffix, ".">> >>

RECURSIVE StripPrefixes(_, _)
\* for prefix in prefixes: if normalized.startswith(prefix): normalized = normalized[len(prefix):]
StripPrefixes(s, i) ==
    IF i > Len(prefixes) THEN s
    ELSE StripPrefixes(IF StartsWith(s, prefixes[i]) THEN DropFirst(s, Len(prefixes[i])) ELSE s,
                       i + 1)

\* the inner loop over patterns: the first pattern that matches is removed, then break
StripSuffix(s, suffix) ==
    LET pats == Patterns(suffix)
        hits == {k \in 1..Len(pats) : EndsWith(s, pats[k])}
    IN  IF hits = {} THEN s
        ELSE DropLast(s, Len(pats[CHOOSE k \in hits : \A j \in hits : k <= j]))

RECURSIVE StripSuffixes(_, _)
\* the outer loop: every suffix of the list is tried, in order, on the current string
StripSuffixes(s, i) ==
    IF i > Len(suffixes) THEN s ELSE StripSuffixes(StripSuffix(s, suffixes[i]), i + 1)

\* LeadProcessor._normalize_company_name
normalize_company_name(company_name) ==
    IF company_name = << >> THEN << >>
    ELSE Strip(StripSuffixes(StripPrefixes(Strip(Lower(company_name)), 1), 1))

\* longest company name, in symbols
MaxNameLen == 5

\* the symbols company names are drawn from
NameAlphabet == {" ", ",", ".", "acme", "The", "the", "inc", "co"}

InitNorm ==
    /\ nm_pc = "input"
    /\ nm_in \in StrsUpTo(NameAlphabet, MaxNameLen)
    /\ nm_once = << >>
    /\ nm_twice = << >>
    /\ IdleConfig
    /\ IdleDb
    /\ IdleFind
    /\ IdleEnrich
    /\ IdleFilter
    /\ IdleValidate
    /\ IdleUpdate
    /\ IdleFollowup
    /\ IdleConcurrent

\* normalized = self._normalize_company_name(company_name)
NormalizeOnce ==
    /\ nm_pc = "input"
    /\ nm_once' = normalize_company_name(nm_in)
    /\ nm_pc' = "once"
    /\ UNCHANGED <<nm_in, nm_twice, cfgVars, dbVars, flVars, enVars, ftVars, vdVars, upVars, fuVars, ccVars>>

\* the normalized key is normalized again
NormalizeTwice ==
    /\ nm_pc = "once"
    /\ nm_twice' = normalize_company_name(nm_once)
    /\ nm_pc' = "twice"
    /\ UNCHANGED <<nm_in, nm_once, cfgVars, dbVars, flVars, enVars, ftVars, vdVars, upVars, fuVars, ccVars>>

NextNorm == NormalizeOnce \/ NormalizeTwice

SpecNorm == InitNorm /\ [][NextNorm]_vars

\* C6: normalization is idempotent: normalizing a normalized company name
\* returns it unchanged.
C6_IdempotentNormalization == nm_pc = "twice" => nm_twice = nm_once

(***************************************************************************)
(* utils/data_processing.py: validation, cleaning and the filter pipeline  *)
(***************************************************************************)

\* len() of one symbol, in characters
SymLen(c) ==
    CASE c \in {" ", ",", ".", "@", "-", "+", "a", "A", "b", "B"} -> 1
      [] c \in {"co", "Al", "11", "50"} -> 2
      [] c \in {"inc", "Inc", "the", "The", "Doe", "foo", "Foo"} -> 3
      [] c \in {"acme", "Acme", "info", "Info", "Jane", "test"} -> 4
      [] c = "x.com" -> 5
      [] c \in {"globex", "Globex"} -> 6
      [] OTHER -> 8

RECURSIVE StrLen(_)
\* len(s), in characters
StrLen(s) == IF s = << >> THEN 0 ELSE SymLen(Head(s)) + StrLen(Tail(s))

RECURSIVE Split(_)
\* s.split(): the whitespace-separated tokens of s
Split(s) ==
    LET t == LStrip(s)
        n == IF \E i \in 1..Len(t) : t[i] \in Whitespace
             THEN (CHOOSE i \in 1..Len(t) :
                      t[i] \in Whitespace /\ \A j \in 1..(i - 1) : t[j] \notin Whitespace) - 1
             ELSE Len(t)
    IN  IF t = << >> THEN << >> ELSE <<SubSeq(t, 1, n)>> \o Split(DropFirst(t, n))

RECURSIVE Join(_)
\* ' '.join(tokens)
Join(tokens) ==
    IF tokens = << >> THEN << >>
    ELSE IF Len(tokens) = 1 THEN tokens[1]
    ELSE tokens[1] \o <<" ">> \o Join(Tail(tokens))

\* Python truthiness of an Optional[int]: None and 0 are falsy
Truthy(o) == o # None /\ o # Some(0)

\* the value of a present Optional
Val(o) == CHOOSE v \in o : TRUE

\* local parts and domains that the e-mail pattern accepts, among the symbols used
LocalParts == {"a", "A", "b", "info"}

DomainParts == {"x.com"}

\* DataValidator.validate_email
validate_email(email) ==
    IF email = << >> THEN FALSE
    ELSE LET t == Strip(email)
         IN  Len(t) = 3 /\ t[1] \in LocalParts /\ t[2] = "@" /\ t[3] \in DomainParts

\* lead_data built from one Apollo person by process_apollo_results
LeadData(person) ==
    [email |-> person.email,
     name |-> person.name,
     company |-> IF person.organization # None THEN Val(person.organization).name ELSE << >>,
     raw_data |-> Some(person)]

\* DataValidator.validate_lead_data: validation['valid']
validate_lead_data(lead_data) ==
    /\ lead_data.email # << >>
    /\ validate_email(lead_data.email)
    /\ ~(lead_data.name # << >> /\ StrLen(Strip(lead_data.name)) < 2)
    /\ ~(lead_data.company # << >> /\ StrLen(Strip(lead_data.company)) < 2)

\* DataValidator.clean_lead_data: only email, name, company (and source,
\* notes, projectId) are copied; raw_data is not
clean_lead_data(lead_data) ==
    [email |-> Lower(Strip(lead_data.email)),
     name |-> Join(Split(Strip(lead_data.name))),
     company |-> Strip(lead_data.company),
     raw_data |-> None]

RECURSIVE process_apollo_results(_)
\* LeadProcessor.process_apollo_results
process_apollo_results(people) ==
    IF people = << >> THEN << >>
    ELSE LET lead_data == LeadData(Head(people))
         IN  (IF validate_lead_data(lead_data) THEN <<clean_lead_data(lead_data)>> ELSE << >>)
                \o process_apollo_results(Tail(people))

\* int(range_str.split('-')[0]); None stands for ValueError
ParseInt(c) ==
    CASE c = "11" -> Some(11)
      [] c = "50" -> Some(50)
      [] OTHER -> None

\* the company size recovered from raw_data by _should_filter_by_company_size
RecoveredSize(lead) ==
    IF lead.raw_data = None \/ Val(lead.raw_data).organization = None THEN None
    ELSE LET organization == Val(Val(lead.raw_data).organization)
             est == organization.estimated_num_employees
             emp_ranges == organization.num_employees_ranges
         IN  IF Truthy(est) THEN est
             ELSE IF emp_ranges # << >> /\ \E i \in 1..Len(emp_ranges[1]) : emp_ranges[1][i] = "-"
                     /\ ParseInt(emp_ranges[1][1]) # None
                  THEN ParseInt(emp_ranges[1][1])
                  ELSE est

\* LeadProcessor._should_filter_by_company_size
should_filter_by_company_size(lead, filter_config) ==
    IF ~Truthy(filter_config.min_company_size) /\ ~Truthy(filter_config.max_company_size)
    THEN FALSE
    ELSE LET company_size == RecoveredSize(lead)
         IN  IF company_size = None THEN FALSE
             ELSE \/ /\ Truthy(filter_config.min_company_size)
                     /\ Val(company_size) < Val(filter_config.min_company_size)
                  \/ /\ Truthy(filter_config.max_company_size)
                     /\ Val(company_size) > Val(filter_config.max_company_size)

generic_patterns_none == {}

\* generic_patterns, each a local part followed by '@'
generic_patterns ==
    {<<c, "@">> : c \in {"info", "contact", "support", "help", "sales", "admin", "webmaster",
                         "postmaster", "noreply", "no-reply", "donotreply", "marketing"}}

disposable_domains ==
    {"10minutemail.com", "guerrillamail.com", "tempmail.org", "mailinator.com", "dispostable.com"}

test_names == {<<"test">>, <<"demo">>, <<"sample">>, <<"example">>, <<"admin">>, <<"user">>}

\* LeadProcessor._passes_quality_filters
passes_quality_filters(lead) ==
    LET email == Lower(lead.email)
        email_domain == IF \E i \in 1..Len(email) : email[i] = "@"
                        THEN DropFirst(email, CHOOSE i \in 1..Len(email) :
                                email[i] = "@" /\ \A j \in (i + 1)..Len(email) : email[j] # "@")
                        ELSE << >>
        name == Strip(lead.name)
    IN  /\ ~\E pattern \in generic_patterns : StartsWith(email, pattern)
        /\ ~(Len(email_domain) = 1 /\ email_domain[1] \in disposable_domains)
        /\ ~(name # << >> /\ StrLen(name) < 2)
        /\ ~(name # << >> /\ Lower(name) \in test_names)
        /\ ~(name # << >> /\ Len(Split(name)) = 1 /\ StrLen(name) < 3)

InTrackerNever(company_name, company_tracker) == FALSE

\* company_name in company_tracker
InTracker(company_name, company_tracker) == company_name \in company_tracker

LacksEmailNever(lead) == FALSE

\* not lead.get('email')
LacksEmail(lead) == lead.email = << >>

\* the loop body of apply_lead_filters for one lead: "email", "blacklist",
\* "company", "size" or "quality" names the stage that drops it, "accept" keeps it
Stage(lead, filter_config, existing_leads, blacklisted_set, company_tracker) ==
    IF filter_config.require_email /\ LacksEmail(lead) THEN "email"
    ELSE IF filter_config.exclude_blacklisted /\ lead.email # << >>
            /\ Lower(lead.email) \in blacklisted_set THEN "blacklist"
    ELSE IF filter_config.one_person_per_company /\ lead.company # << >>
            /\ (\/ InTracker(normalize_company_name(lead.company), company_tracker)
                \/ \E i \in 1..Len(existing_leads) :
                     normalize_company_name(existing_leads[i].company)
                        = normalize_company_name(lead.company)) THEN "company"
    ELSE IF should_filter_by_company_size(lead, filter_config) THEN "size"
    ELSE IF ~passes_quality_filters(lead) THEN "quality"
    ELSE "accept"

\* a loop body that records the company key before the email and blacklist stages
ClaimsBeforeStages(lead, filter_config, stage) ==
    filter_config.one_person_per_company /\ lead.company # << >>

\* a loop body that never records a company key
ClaimsNever(lead, filter_config, stage) == FALSE

\* does the loop body record the lead's company key in company_tracker
Claims(lead, filter_config, stage) ==
    /\ stage \in {"size", "quality", "accept"}
    /\ filter_config.one_person_per_company
    /\ lead.company # << >>

RECURSIVE FilterLoop(_, _, _, _, _, _)
\* for lead in leads: ... filtered_leads.append(lead)
FilterLoop(leads, filter_config, existing_leads, blacklisted_set, company_tracker, filtered_leads) ==
    IF leads = << >> THEN filtered_leads
    ELSE LET lead == Head(leads)
             stage == Stage(lead, filter_config, existing_leads, blacklisted_set, company_tracker)
         IN  FilterLoop(Tail(leads), filter_config, existing_leads, blacklisted_set,
                        IF Claims(lead, filter_config, stage)
                        THEN company_tracker \cup {normalize_company_name(lead.company)}
                        ELSE company_tracker,
                        IF stage = "accept" THEN Append(filtered_leads, lead) ELSE filtered_leads)

\* LeadProcessor.apply_lead_filters
apply_lead_filters(leads, filter_config, existing_leads, blacklisted_emails) ==
    FilterLoop(leads, filter_config, existing_leads,
               {Lower(email) : email \in blacklisted_emails}, {}, << >>)

\* a duplicate pass that keeps every lead
check_duplicate_leads_keep_all(new_leads, existing_leads) == new_leads

\* LeadProcessor.check_duplicate_leads
check_duplicate_leads(new_leads, existing_leads) ==
    LET existing_emails == {Lower(existing_leads[i].email) : i \in 1..Len(existing_leads)}
    IN  SelectSeq(new_leads, LAMBDA lead : Lower(lead.email) \notin existing_emails)

\* LeadProcessor.prepare_lead_for_database, followed by the enrichmentStatus
\* that find_leads_logic sets
prepare_lead_for_database(lead, auto_enrich) ==
    [email |-> lead.email,
     name |-> lead.name,
     company |-> lead.company,
     status |-> "new",
     followupCount |-> 0,
     enrichmentStatus |-> IF auto_enrich THEN "pending" ELSE "None",
     enrichmentAttempts |-> None,
     enrichmentError |-> None]

(***************************************************************************)
(* find_leads.py: find_leads_logic                                         *)
(***************************************************************************)

\* most people in one Apollo response
MaxBatch == 2

\* most lead documents of the project
MaxLeads == 2

AcmeOrg ==
    [name |-> <<"acme">>, estimated_num_employees |-> None, num_employees_ranges |-> << >>]

AcmeIncOrg ==
    [name |-> <<"Acme", " ", "Inc", ".">>, estimated_num_employees |-> Some(11),
     num_employees_ranges |-> << <<"11", "-", "50">> >>]

GlobexOrg ==
    [name |-> <<"globex">>, estimated_num_employees |-> None, num_employees_ranges |-> << >>]

JaneDoe == <<"Jane", " ", "Doe">>

\* the records of apollo_results['people']
People ==
    [email : {<<"a", "@", "x.com">>, <<"b", "@", "x.com">>}, name : {JaneDoe},
     organization : {None, Some(AcmeOrg)}]
    \cup {[email |-> <<" ", "A", "@", "x.com">>, name |-> JaneDoe,
           organization |-> Some(AcmeIncOrg)],
          [email |-> <<"info", "@", "x.com">>, name |-> JaneDoe,
           organization |-> Some(GlobexOrg)],
          [email |-> << >>, name |-> JaneDoe, organization |-> Some(GlobexOrg)]}

\* the lead filters a project can be run with
FilterConfigs ==
    [one_person_per_company : BOOLEAN, require_email : BOOLEAN, exclude_blacklisted : BOOLEAN,
     min_company_size : {None}, max_company_size : {None}]

\* a lead document that was not created by find_leads_logic
LegacyLead ==
    [email |-> <<"A", "@", "x.com">>, name |-> JaneDoe, company |-> <<"Acme", " ", "Inc", ".">>,
     status |-> "new", followupCount |-> 0, enrichmentStatus |-> "None",
     enrichmentAttempts |-> None, enrichmentError |-> None]

InitFind ==
    /\ \/ db_leads = << >> /\ blacklist = {}
       \/ db_leads = <<LegacyLead>> /\ blacklist = {<<"B", "@", "x.com">>}
    /\ project_blacklist = {}
    /\ leadCount = Len(db_leads)
    /\ IdleFind
    /\ IdleConfig
    /\ IdleNorm
    /\ IdleEnrich
    /\ IdleFilter
    /\ IdleValidate
    /\ IdleUpdate
    /\ IdleFollowup
    /\ IdleConcurrent

\* the reads of find_leads_logic on which the document store can fail
StoreReads == {"config", "existing", "blacklist"}

\* find_leads_logic up to the final duplicate check (lines 84-184): the
\* configuration is loaded, the Apollo results are processed, the existing
\* leads and the blacklist are read, the filters and the duplicate pass are
\* applied.  filter_config is the stored effective lead filter.  A store
\* failure while the configuration is loaded is caught by the loaders, which
\* return the default configuration; one while the blacklist is read is caught
\* at line 162 and leaves the empty list; one while the existing leads are
\* read reaches the handler at line 268.
FindLeadsFilter(people, filter_config, fault) ==
    /\ fl_pc = "idle"
    /\ people # << >>
    /\ fl_fault' = fault
    /\ fl_written' = << >>
    /\ IF fault = "existing"
       THEN /\ fl_pc' = "returned"
            /\ fl_result' = "failure"
            /\ UNCHANGED <<fl_cfg, fl_people, fl_processed, fl_existing, fl_filtered, fl_unique>>
       ELSE /\ fl_pc' = "filtered"
            /\ fl_people' = people
            /\ fl_result' = "none"
            /\ fl_cfg' = IF fault = "config" THEN DefaultLeadFilter ELSE filter_config
            /\ fl_processed' = process_apollo_results(people)
            /\ fl_existing' = db_leads
            /\ fl_filtered' = apply_lead_filters(fl_processed', fl_cfg', db_leads,
                                                 IF fault = "blacklist" THEN {} ELSE blacklist)
            /\ fl_unique' = check_duplicate_leads(fl_filtered', db_leads)
            /\ Len(db_leads) + Len(fl_unique') <= MaxLeads
    /\ UNCHANGED <<dbVars, cfgVars, nmVars, enVars, ftVars, vdVars, upVars, fuVars, ccVars>>

\* find_leads_logic from the batch to the result (lines 186-266), with no
\* research API key configured (line 225): every unique lead is prepared and
\* set in the batch; with saved_count > 0 the batch is committed and then the
\* lead count is written to the project document.  The store can fail on the
\* commit ("commit") or on the project update ("count"); both reach the handler
\* at line 268.
FindLeadsCommit(auto_enrich, failure) ==
    LET docs == [i \in 1..Len(fl_unique) |-> prepare_lead_for_database(fl_unique[i], auto_enrich)]
        saved_count == Len(fl_unique)
        committed == saved_count > 0 /\ failure # "commit"
        counted == committed /\ failure # "count"
    IN  /\ fl_pc = "filtered"
        /\ db_leads' = IF committed THEN db_leads \o docs ELSE db_leads
        /\ fl_written' = IF committed THEN docs ELSE << >>
        /\ leadCount' = IF counted THEN Len(fl_existing) + saved_count ELSE leadCount
        /\ fl_result' = IF saved_count = 0 \/ counted THEN "success" ELSE "failure"
        /\ fl_pc' = "returned"
        /\ fl_cfg' = DefaultLeadFilter
        /\ fl_people' = << >>
        /\ fl_processed' = << >>
        /\ fl_existing' = << >>
        /\ fl_filtered' = << >>
        /\ UNCHANGED <<fl_unique, fl_fault>>
        /\ UNCHANGED <<blacklist, project_blacklist, cfgVars, nmVars, enVars, ftVars, vdVars, upVars, fuVars, ccVars>>

\* the dictionary is returned to the caller (lines 250-274)
FindLeadsReturn ==
    /\ fl_pc = "returned"
    /\ fl_pc' = "idle"
    /\ fl_unique' = << >>
    /\ fl_fault' = "none"
    /\ fl_written' = << >>
    /\ fl_result' = "none"
    /\ UNCHANGED <<fl_cfg, fl_people, fl_processed, fl_existing, fl_filtered>>
    /\ UNCHANGED <<dbVars, cfgVars, nmVars, enVars, ftVars, vdVars, upVars, fuVars, ccVars>>

\* invocations during which the document store does not fail
NextFind ==
    \/ \E people \in StrsUpTo(People, MaxBatch), filter_config \in FilterConfigs :
            FindLeadsFilter(people, filter_config, "none")
    \/ \E auto_enrich \in BOOLEAN : FindLeadsCommit(auto_enrich, "none")
    \/ FindLeadsReturn

SpecFind == InitFind /\ [][NextFind]_vars

\* the leads of a list whose company field is not empty
WithCompany(ls) == {i \in 1..Len(ls) : ls[i].company # << >>}

\* C3 (as claimed): with one_person_per_company, no two returned leads have
\* the same normalized company and no returned lead's normalized company is
\* that of an existing lead.
C3_DedupAllLeads ==
    (fl_pc = "filtered" /\ fl_cfg.one_person_per_company) =>
        /\ \A i, j \in 1..Len(fl_filtered) :
                i # j => normalize_company_name(fl_filtered[i].company)
                            # normalize_company_name(fl_filtered[j].company)
        /\ \A i \in 1..Len(fl_filtered), k \in 1..Len(fl_existing) :
                normalize_company_name(fl_filtered[i].company)
                    # normalize_company_name(fl_existing[k].company)

\* C3 (amended): with one_person_per_company, no two returned leads that
\* have a company share a normalized company, and no returned lead that has
\* a company has the normalized company of an existing lead.
C3_DedupLeadsWithCompany ==
    (fl_pc = "filtered" /\ fl_cfg.one_person_per_company) =>
        /\ \A i, j \in WithCompany(fl_filtered) :
                i # j => normalize_company_name(fl_filtered[i].company)
                            # normalize_company_name(fl_filtered[j].company)
        /\ \A i \in WithCompany(fl_filtered), k \in 1..Len(fl_existing) :
                normalize_company_name(fl_filtered[i].company)
                    # normalize_company_name(fl_existing[k].company)

\* a batch with two candidates of one company (by normalized name), of which
\* the filter returned exactly one
C3_Witness ==
    /\ fl_pc = "filtered"
    /\ fl_cfg.one_person_per_company
    /\ \E i, j \in WithCompany(fl_processed) :
            /\ i # j
            /\ normalize_company_name(fl_processed[i].company)
                    = normalize_company_name(fl_processed[j].company)
    /\ Cardinality(WithCompany(fl_filtered)) = 1

\* C7: no two persisted leads of the project have the same email.
C7_EmailUniqueInProject ==
    \A i, j \in 1..Len(db_leads) : i # j => db_leads[i].email # db_leads[j].email

\* C8: after the filters and the duplicate pass, no remaining candidate's
\* lowercased and stripped email is the email of an existing lead.
C8_FinalDuplicatePass ==
    fl_pc = "filtered" =>
        \A i \in 1..Len(fl_unique), k \in 1..Len(fl_existing) :
            Lower(Strip(fl_unique[i].email)) # fl_existing[k].email

\* the duplicate pass removed a filtered candidate and kept another one
C8_Witness ==
    /\ fl_pc = "filtered"
    /\ fl_unique # << >>
    /\ Len(fl_unique) < Len(fl_filtered)
    /\ \E i \in 1..Len(fl_filtered), k \in 1..Len(fl_existing) :
            fl_filtered[i].email = fl_existing[k].email

(***************************************************************************)
(* Lead enrichment: enrich_leads_logic.  One behaviour is one invocation   *)
(* on a project whose leads are in any enrichment state.  The research     *)
(* collaborator is outside the program: each call raises, returns nothing, *)
(* or returns a text.  A text is the record of what validate_enrichment_   *)
(* data measures on it.                                                    *)
(***************************************************************************)
MaxRetries == 2

MaxEnrichLeads == 2

MaxSelected == 2

enrichment_types == {"company", "person", "both"}

GoodContent == [length |-> 100, generic |-> FALSE, words |-> 10, unique |-> 3, segments |-> 3]

ShortContent == [length |-> 99, generic |-> FALSE, words |-> 10, unique |-> 3, segments |-> 3]

GenericContent == [length |-> 100, generic |-> TRUE, words |-> 10, unique |-> 3, segments |-> 3]

Contents == {GoodContent, ShortContent, GenericContent}

\* what one call of perplexity_client.enrich_lead_data can come back with
Responses ==
    {[kind |-> k, content |-> None] : k \in {"exception", "no_response"}}
        \cup {[kind |-> "content", content |-> Some(c)] : c \in Contents}

validate_enrichment_data_inclusive(content) ==
    IF content.length <= 100 THEN FALSE
    ELSE IF content.generic THEN FALSE
    ELSE IF content.unique * 10 < content.words * 3 THEN FALSE
    ELSE IF content.segments < 3 THEN FALSE
    ELSE TRUE

\* validate_enrichment_data on a text given by its length, whether it holds a
\* generic phrase, its numbers of tokens and of distinct tokens, and the
\* number of its '.'-separated segments
validate_enrichment_data(content) ==
    IF content.length < 100 THEN FALSE
    ELSE IF content.generic THEN FALSE
    ELSE IF content.unique * 10 < content.words * 3 THEN FALSE
    ELSE IF content.segments < 3 THEN FALSE
    ELSE TRUE

\* the outcome of one attempt that reached the research call
Outcome(response) ==
    IF response.kind = "content"
    THEN IF validate_enrichment_data(Val(response.content)) THEN "valid" ELSE "invalid"
    ELSE response.kind

\* enrichment_error assigned by an attempt with that outcome
ErrorMessage(outcome) ==
    CASE outcome = "exception" -> "Perplexity API Error"
      [] outcome = "no_response" -> "No response from Perplexity API"
      [] outcome = "invalid" -> "Enrichment data failed quality validation"
      [] outcome = "missing" -> "Missing required data for enrichment (company name)"
      [] OTHER -> "Unknown error"

LoopContinuesOffByOne(attempts, max_retries, success) ==
    attempts <= max_retries /\ ~success

\* the condition of the while loop
LoopContinues(attempts, max_retries, success) ==
    attempts < max_retries /\ ~success

AfterAttemptRaising(outcome) ==
    IF outcome = "exception" THEN "done" ELSE "attempt"

\* where control goes after an attempt that reached the research call: the
\* except clause of the loop body catches what the call raises, so the loop goes on
AfterAttempt(outcome) == "attempt"

\* the condition under which an attempt calls the research collaborator
HasRequiredData(lead, enrichment_type) ==
    lead.company # << >> /\ enrichment_type \in {"company", "both"}

UpdateStatusByError(success, error) ==
    IF error = None THEN "enriched" ELSE "failed"

\* the branch of the update after the loop
UpdateStatus(success, error) ==
    IF success THEN "enriched" ELSE "failed"

Ids(n) == [i \in 1..n |-> i]

\* leads_to_enrich
SelectLeads(lead_ids, force_re_enrich) ==
    IF lead_ids # << >>
    THEN SelectSeq(lead_ids, LAMBDA id : id \in 1..Len(db_leads))
    ELSE SelectSeq(Ids(Len(db_leads)),
                   LAMBDA id : force_re_enrich \/ db_leads[id].enrichmentStatus = "None")

EnrichLead(company, enrichmentStatus, attempts, error) ==
    [email |-> <<"a", "@", "x.com">>, name |-> JaneDoe, company |-> company,
     status |-> "new", followupCount |-> 0, enrichmentStatus |-> enrichmentStatus,
     enrichmentAttempts |-> attempts, enrichmentError |-> error]

EnrichPool ==
    {EnrichLead(<<"Acme">>, "None", None, None),
     EnrichLead(<<"Acme">>, "pending", None, None),
     EnrichLead(<< >>, "None", None, None),
     EnrichLead(<<"Acme">>, "enriched", Some(1), None),
     EnrichLead(<<"Acme">>, "failed", Some(1), Some(ErrorMessage("no_response")))}

\* the lead_ids of a request: any list, with repetitions and with the id of no document
LeadIdLists(n) == StrsUpTo(1..(n + 1), MaxSelected)

Result(success, kind, processed, enriched, failed) ==
    [success |-> success, kind |-> kind, leads_processed |-> processed,
     leads_enriched |-> enriched, leads_failed |-> failed]

InitEnrich ==
    /\ db_leads \in UNION {[1..n -> EnrichPool] : n \in 1..MaxEnrichLeads}
    /\ leadCount = Len(db_leads)
    /\ blacklist = {}
    /\ project_blacklist = {}
    /\ en_pc = "idle"
    /\ en_max_retries = 3
    /\ en_type = "both"
    /\ en_force = FALSE
    /\ en_queue = << >>
    /\ en_i = 1
    /\ en_attempts = 0
    /\ en_success = FALSE
    /\ en_error = None
    /\ en_trace = NoTrace
    /\ en_batch = << >>
    /\ en_result = NoResult
    /\ IdleConfig
    /\ IdleNorm
    /\ IdleFind
    /\ IdleFilter
    /\ IdleValidate
    /\ IdleUpdate
    /\ IdleFollowup
    /\ IdleConcurrent

\* lines 69-134: configuration, selection of the leads, early returns
EnrichStart(lead_ids, force_re_enrich, enrichment_type, max_retries, enabled) ==
    /\ en_pc = "idle"
    /\ IF ~enabled
       THEN /\ en_pc' = "done"
            /\ en_result' = Result(FALSE, "disabled", Some(0), Some(0), Some(0))
            /\ UNCHANGED <<en_max_retries, en_type, en_force, en_queue>>
       ELSE IF SelectLeads(lead_ids, force_re_enrich) = << >>
       THEN /\ en_pc' = "done"
            /\ en_result' = Result(TRUE, "no_leads", Some(0), Some(0), Some(0))
            /\ UNCHANGED <<en_max_retries, en_type, en_force, en_queue>>
       ELSE /\ en_pc' = "attempt"
            /\ en_max_retries' = max_retries
            /\ en_type' = enrichment_type
            /\ en_force' = force_re_enrich
            /\ en_queue' = SelectLeads(lead_ids, force_re_enrich)
            /\ UNCHANGED en_result
    /\ UNCHANGED <<en_i, en_attempts, en_success, en_error, en_trace, en_batch>>
    /\ UNCHANGED <<cfgVars, nmVars, dbVars, flVars, ftVars, vdVars, upVars, fuVars, ccVars>>

\* lines 142-196: one iteration of the while loop for the current lead
EnrichAttempt(response) ==
    /\ en_pc = "attempt"
    /\ LoopContinues(en_attempts, en_max_retries, en_success)
    /\ en_attempts' = en_attempts + 1
    /\ IF HasRequiredData(db_leads[en_queue[en_i]], en_type)
       THEN /\ en_trace' = [calls |-> en_trace.calls + 1,
                            passed |-> en_trace.passed \/ Outcome(response) = "valid",
                            late |-> en_trace.late + (IF en_trace.passed THEN 1 ELSE 0),
                            failures |-> en_trace.failures
                                            + (IF Outcome(response) = "valid" THEN 0 ELSE 1),
                            last |-> Outcome(response)]
            /\ en_success' = (en_success \/ Outcome(response) = "valid")
            /\ en_error' = IF Outcome(response) = "valid"
                           THEN en_error
                           ELSE Some(ErrorMessage(Outcome(response)))
            /\ en_pc' = AfterAttempt(Outcome(response))
       ELSE /\ en_error' = Some(ErrorMessage("missing"))
            /\ en_pc' = "update"
            /\ UNCHANGED <<en_trace, en_success>>
    /\ UNCHANGED <<en_max_retries, en_type, en_force, en_queue, en_i, en_batch, en_result>>
    /\ UNCHANGED <<cfgVars, nmVars, dbVars, flVars, ftVars, vdVars, upVars, fuVars, ccVars>>

\* lines 198-231: the update of the current lead, set in the batch
EnrichUpdate ==
    /\ \/ en_pc = "update"
       \/ en_pc = "attempt" /\ ~LoopContinues(en_attempts, en_max_retries, en_success)
    /\ en_batch' = Append(en_batch,
            [id |-> en_queue[en_i],
             enrichmentStatus |-> UpdateStatus(en_success, en_error),
             enrichmentAttempts |-> en_attempts,
             enrichmentError |-> IF UpdateStatus(en_success, en_error) = "enriched"
                                 THEN None
                                 ELSE IF en_error = None
                                      THEN Some(ErrorMessage("unknown"))
                                      ELSE en_error,
             trace |-> en_trace])
    /\ en_i' = en_i + 1
    /\ en_pc' = IF en_i < Len(en_queue) THEN "attempt" ELSE "commit"
    /\ en_attempts' = 0
    /\ en_success' = FALSE
    /\ en_error' = None
    /\ en_trace' = NoTrace
    /\ UNCHANGED <<en_max_retries, en_type, en_force, en_queue, en_result>>
    /\ UNCHANGED <<cfgVars, nmVars, dbVars, flVars, ftVars, vdVars, upVars, fuVars, ccVars>>

CountStatus(batch, status) ==
    Cardinality({k \in 1..Len(batch) : batch[k].enrichmentStatus = status})

\* the lead document after the updates of the batch that name it
ApplyBatch(batch, id, doc) ==
    IF \E k \in 1..Len(batch) : batch[k].id = id
    THEN LET k == CHOOSE j \in 1..Len(batch) :
                    batch[j].id = id /\ \A m \in (j + 1)..Len(batch) : batch[m].id # id
         IN [doc EXCEPT !.enrichmentStatus = batch[k].enrichmentStatus,
                        !.enrichmentAttempts = Some(batch[k].enrichmentAttempts),
                        !.enrichmentError = IF batch[k].enrichmentError = None
                                            THEN doc.enrichmentError
                                            ELSE batch[k].enrichmentError]
    ELSE doc

\* lines 233-259 and 264-270: commit of the batch and the result returned
EnrichCommit(committed) ==
    /\ en_pc = "commit"
    /\ en_pc' = "done"
    /\ IF committed
       THEN /\ db_leads' = [id \in 1..Len(db_leads) |-> ApplyBatch(en_batch, id, db_leads[id])]
            /\ en_result' = Result(TRUE, "completed", Some(Len(en_queue)),
                                   Some(CountStatus(en_batch, "enriched")),
                                   Some(CountStatus(en_batch, "failed")))
       ELSE /\ en_result' = Result(FALSE, "error", None, None, None)
            /\ UNCHANGED db_leads
    /\ UNCHANGED <<en_max_retries, en_type, en_force, en_queue, en_i, en_attempts, en_success,
                   en_error,
                   en_trace, en_batch>>
    /\ UNCHANGED <<leadCount, blacklist, project_blacklist, cfgVars, nmVars, flVars, ftVars, vdVars, upVars, fuVars, ccVars>>

NextEnrich ==
    \/ \E lead_ids \in LeadIdLists(Len(db_leads)), force_re_enrich \in BOOLEAN,
          enrichment_type \in enrichment_types, max_retries \in 0..MaxRetries,
          enabled \in BOOLEAN :
            EnrichStart(lead_ids, force_re_enrich, enrichment_type, max_retries, enabled)
    \/ \E response \in Responses : EnrichAttempt(response)
    \/ EnrichUpdate
    \/ \E committed \in BOOLEAN : EnrichCommit(committed)

SpecEnrich == InitEnrich /\ [][NextEnrich]_vars

LeadOf(update) == db_leads[update.id]

C5_MissingCompanyZeroAttempts ==
    \A k \in 1..Len(en_batch) :
        (LeadOf(en_batch[k]).company = << >> /\ en_type \in {"company", "both"})
            => /\ en_batch[k].enrichmentStatus = "failed"
               /\ en_batch[k].trace.calls = 0
               /\ en_batch[k].enrichmentAttempts = 0

C10_Exhaustion ==
    \A k \in 1..Len(en_batch) :
        (en_batch[k].enrichmentStatus = "failed" /\ LeadOf(en_batch[k]).company # << >>)
            => /\ en_batch[k].enrichmentAttempts = en_max_retries
               /\ en_batch[k].trace.failures = en_max_retries
               /\ en_max_retries > 0
                    => en_batch[k].enrichmentError = Some(ErrorMessage(en_batch[k].trace.last))

TerminalStatus == {"enriched", "failed"}

\* C12: an invocation without force_re_enrich leaves every lead whose
\* enrichmentStatus is already enriched or failed as it is, whether the leads
\* are selected by the project query or by explicit lead_ids.
C12_ForceFlag ==
    [][~en_force =>
            \A id \in 1..Len(db_leads) :
                db_leads[id].enrichmentStatus \in TerminalStatus => db_leads'[id] = db_leads[id]]_vars

(***************************************************************************)
(* apply_lead_filters called on any list of lead dictionaries, one loop    *)
(* iteration per step.                                                     *)
(***************************************************************************)
MaxCandidates == 2

RangeOrg ==
    [name |-> <<"Acme", " ", "Inc", ".">>, estimated_num_employees |-> None,
     num_employees_ranges |-> << <<"11", "-", "50">> >>]

SizedOrg ==
    [name |-> <<"acme">>, estimated_num_employees |-> Some(60), num_employees_ranges |-> << >>]

OpenRangeOrg ==
    [name |-> <<"Globex">>, estimated_num_employees |-> None,
     num_employees_ranges |-> << <<"50", "+">> >>]

ZeroOrg ==
    [name |-> <<"Foo">>, estimated_num_employees |-> Some(0),
     num_employees_ranges |-> << <<"50", "-", "100">> >>]

\* a lead dictionary with the Apollo record it was built from
Candidate(email, company, organization) ==
    [email |-> email, name |-> JaneDoe, company |-> company,
     raw_data |-> Some([email |-> email, name |-> JaneDoe, organization |-> organization])]

\* a lead dictionary without raw_data
PlainCandidate(email, company) ==
    [email |-> email, name |-> JaneDoe, company |-> company, raw_data |-> None]

Candidates ==
    {Candidate(<<"a", "@", "x.com">>, <<"Acme", " ", "Inc", ".">>, Some(RangeOrg)),
     Candidate(<<"b", "@", "x.com">>, <<"acme">>, Some(SizedOrg)),
     Candidate(<<"A", "@", "x.com">>, <<"Globex">>, Some(OpenRangeOrg)),
     Candidate(<<"B", "@", "x.com">>, << >>, None),
     Candidate(<<"b", "@", "x.com">>, <<"Foo">>, Some(ZeroOrg)),
     PlainCandidate(<< >>, <<"Globex">>),
     PlainCandidate(<<"info", "@", "x.com">>, <<"Foo">>),
     PlainCandidate(<<"Info", "@", "x.com">>, << >>),
     PlainCandidate(<<"a", "@", "x.com">>, << >>)}

\* any LeadFilterConfig, validated or not
SizedFilterConfigs ==
    [one_person_per_company : BOOLEAN, require_email : BOOLEAN, exclude_blacklisted : BOOLEAN,
     min_company_size : {None, Some(50)}, max_company_size : {None, Some(20)}]

InitFilter ==
    /\ ft_pc = "loop"
    /\ ft_leads \in StrsUpTo(Candidates, MaxCandidates)
    /\ ft_cfg \in SizedFilterConfigs
    /\ ft_existing \in {<< >>, <<LegacyLead>>}
    /\ ft_blacklist \in {{}, {<<"B", "@", "x.com">>}}
    /\ ft_i = 1
    /\ ft_tracker = {}
    /\ ft_filtered = << >>
    /\ ft_stages = << >>
    /\ IdleConfig
    /\ IdleNorm
    /\ IdleDb
    /\ IdleFind
    /\ IdleEnrich
    /\ IdleValidate
    /\ IdleUpdate
    /\ IdleFollowup
    /\ IdleConcurrent

\* one iteration of the for loop (lines 314-353)
FilterStep ==
    /\ ft_pc = "loop"
    /\ ft_i <= Len(ft_leads)
    /\ LET lead == ft_leads[ft_i]
           stage == Stage(lead, ft_cfg, ft_existing,
                          {Lower(email) : email \in ft_blacklist}, ft_tracker)
       IN  /\ ft_stages' = Append(ft_stages, stage)
           /\ ft_tracker' = IF Claims(lead, ft_cfg, stage)
                            THEN ft_tracker \cup {normalize_company_name(lead.company)}
                            ELSE ft_tracker
           /\ ft_filtered' = IF stage = "accept" THEN Append(ft_filtered, lead) ELSE ft_filtered
    /\ ft_i' = ft_i + 1
    /\ UNCHANGED <<ft_pc, ft_leads, ft_cfg, ft_existing, ft_blacklist>>
    /\ UNCHANGED <<cfgVars, nmVars, dbVars, flVars, enVars, vdVars, upVars, fuVars, ccVars>>

\* return filtered_leads (lines 304-305 and 356)
FilterReturn ==
    /\ ft_pc = "loop"
    /\ ft_i > Len(ft_leads)
    /\ ft_pc' = "done"
    /\ UNCHANGED <<ft_leads, ft_cfg, ft_existing, ft_blacklist, ft_i, ft_tracker, ft_filtered,
                   ft_stages>>
    /\ UNCHANGED <<cfgVars, nmVars, dbVars, flVars, enVars, vdVars, upVars, fuVars, ccVars>>

NextFilter == FilterStep \/ FilterReturn

SpecFilter == InitFilter /\ [][NextFilter]_vars

\* C13: with require_email, every lead returned by apply_lead_filters has a
\* non-empty email, whatever the candidate list.
C13_EmailRequirement ==
    (ft_pc = "done" /\ ft_cfg.require_email) =>
        \A i \in 1..Len(ft_filtered) : ft_filtered[i].email # << >>

C13_Witness ==
    /\ ft_pc = "done"
    /\ ft_cfg.require_email
    /\ \E i \in 1..Len(ft_leads) : ft_leads[i].email = << >>
    /\ Len(ft_filtered) = 1

\* the lead is accepted when it is filtered alone, with no existing lead
AcceptedAlone(lead) ==
    Stage(lead, ft_cfg, << >>, {Lower(email) : email \in ft_blacklist}, {}) = "accept"

\* the leads at i and j have companies with the same normalized key
SameKey(i, j) ==
    /\ ft_leads[i].company # << >>
    /\ ft_leads[j].company # << >>
    /\ normalize_company_name(ft_leads[i].company) = normalize_company_name(ft_leads[j].company)

\* C14: with one_person_per_company, when two candidates of the batch have
\* companies with the same normalized key, no existing lead has that key and
\* the first-seen of them passes the other stages, the first is accepted and
\* the later one is dropped.
C14_FirstSeenRetention ==
    (ft_pc = "done" /\ ft_cfg.one_person_per_company) =>
        \A i, j \in 1..Len(ft_leads) :
            (/\ i < j
             /\ SameKey(i, j)
             /\ \A k \in 1..(i - 1) : ~SameKey(k, i)
             /\ \A k \in 1..Len(ft_existing) :
                    normalize_company_name(ft_existing[k].company)
                        # normalize_company_name(ft_leads[i].company)
             /\ AcceptedAlone(ft_leads[i]))
                => /\ ft_stages[i] = "accept"
                   /\ ft_stages[j] # "accept"

C14_Witness ==
    /\ ft_pc = "done"
    /\ ft_cfg.one_person_per_company
    /\ ft_existing = << >>
    /\ Len(ft_leads) = 2
    /\ ft_leads[1].company = <<"Acme", " ", "Inc", ".">>
    /\ ft_leads[2].company = <<"acme">>
    /\ ft_stages = <<"accept", "company">>
    /\ ft_filtered = <<ft_leads[1]>>

\* the size the raw payload gives: estimated_num_employees when the record
\* has one, else the integer before the '-' of the first range string
PayloadSize(lead) ==
    IF lead.raw_data = None \/ Val(lead.raw_data).organization = None THEN None
    ELSE LET organization == Val(Val(lead.raw_data).organization)
             emp_ranges == organization.num_employees_ranges
         IN  IF organization.estimated_num_employees # None
             THEN organization.estimated_num_employees
             ELSE IF emp_ranges # << >> /\ \E i \in 1..Len(emp_ranges[1]) : emp_ranges[1][i] = "-"
                  THEN ParseInt(emp_ranges[1][1])
                  ELSE None

\* C15: with min_company_size or max_company_size set, a candidate that
\* reaches the size stage is dropped by it exactly when a size is recovered
\* from its raw payload (estimated_num_employees, else the lower bound of the
\* first range) and that size is below the minimum or above the maximum; a
\* candidate with no recoverable size is never dropped by the stage.
C15_CompanySizeStage ==
    (ft_cfg.min_company_size # None \/ ft_cfg.max_company_size # None) =>
        \A i \in 1..Len(ft_stages) :
            ft_stages[i] \in {"size", "quality", "accept"} =>
                (ft_stages[i] = "size"
                    <=> /\ PayloadSize(ft_leads[i]) # None
                        /\ \/ /\ ft_cfg.min_company_size # None
                              /\ Val(PayloadSize(ft_leads[i])) < Val(ft_cfg.min_company_size)
                           \/ /\ ft_cfg.max_company_size # None
                              /\ Val(PayloadSize(ft_leads[i])) > Val(ft_cfg.max_company_size))

\* the local parts of the generic role accounts
GenericPrefixes ==
    {"info", "contact", "support", "help", "sales", "admin", "webmaster", "postmaster",
     "noreply", "no-reply", "donotreply", "marketing"}

\* the email is a generic prefix, in any case, followed by '@'
HasGenericLocalPart(email) ==
    Len(email) >= 2 /\ LowerSym(email[1]) \in GenericPrefixes /\ email[2] = "@"

\* C16: a candidate whose email local part is a generic prefix is never in
\* the output of apply_lead_filters, under every filter configuration.
C16_GenericRoleAccounts ==
    /\ \A i \in 1..Len(ft_filtered) : ~HasGenericLocalPart(ft_filtered[i].email)
    /\ \A i \in 1..Len(ft_stages) :
            HasGenericLocalPart(ft_leads[i].email) => ft_stages[i] # "accept"

C16_Witness ==
    /\ ft_pc = "done"
    /\ ~ft_cfg.require_email
    /\ ~ft_cfg.exclude_blacklisted
    /\ ~ft_cfg.one_person_per_company
    /\ Len(ft_leads) = 2
    /\ HasGenericLocalPart(ft_leads[1].email)
    /\ ft_stages = <<"quality", "accept">>

(***************************************************************************)
(* validate_enrichment_data called on any text                             *)
(***************************************************************************)
MaxTextLen == 101

MaxWords == 10

MaxSegments == 4

Texts ==
    {t \in [length : 98..MaxTextLen, generic : BOOLEAN, words : 1..MaxWords,
            unique : 1..MaxWords, segments : 1..MaxSegments] : t.unique <= t.words}

InitValidate ==
    /\ vd_pc = "call"
    /\ vd_text \in Texts
    /\ vd_result = FALSE
    /\ IdleConfig
    /\ IdleNorm
    /\ IdleDb
    /\ IdleFind
    /\ IdleEnrich
    /\ IdleFilter
    /\ IdleUpdate
    /\ IdleFollowup
    /\ IdleConcurrent

Validate ==
    /\ vd_pc = "call"
    /\ vd_pc' = "done"
    /\ vd_result' = validate_enrichment_data(vd_text)
    /\ UNCHANGED <<vd_text, cfgVars, nmVars, dbVars, flVars, enVars, ftVars, upVars, fuVars, ccVars>>

NextValidate == Validate

SpecValidate == InitValidate /\ [][NextValidate]_vars

\* C17: validate_enrichment_data rejects every text shorter than 100
\* characters and accepts a text of exactly 100 characters that has at least
\* 3 '.'-separated segments, no generic phrase and at least 30% distinct tokens.
C17_ValidationLengthBoundary ==
    vd_pc = "done" =>
        /\ vd_text.length < 100 => ~vd_result
        /\ (/\ vd_text.length = 100
            /\ vd_text.segments >= 3
            /\ ~vd_text.generic
            /\ vd_text.unique * 10 >= vd_text.words * 3) => vd_result

C17_Witness ==
    /\ vd_pc = "done"
    /\ vd_text.length = 100
    /\ vd_text.segments = 3
    /\ vd_text.unique * 10 = vd_text.words * 3
    /\ vd_result

(***************************************************************************)
(* Configuration updates: update_global_config_logic,                      *)
(* update_project_config_logic and update_job_roles_config, on the         *)
(* lead_filter, enrichment, job_roles and location domains.                *)
(***************************************************************************)
MaxSize == 2

Sizes == {None} \cup {Some(n) : n \in 0..MaxSize}

\* LeadFilterConfig.validate
LeadFilterValidate(lead_filter) ==
    IF Truthy(lead_filter.min_company_size) /\ Truthy(lead_filter.max_company_size)
    THEN Val(lead_filter.min_company_size) <= Val(lead_filter.max_company_size)
    ELSE TRUE

\* EnrichmentConfig.validate, for the default timeout and prompt template
EnrichmentValidate(enrichment) == enrichment.max_retries > 0

\* JobRoleConfig.validate
JobRolesValidate(job_roles) == job_roles.target_roles # {} \/ job_roles.custom_roles # {}

\* LocationConfig.validate, with use_llm_parsing
LocationValidate(location) == Strip(location.raw_location) # << >>

\* the role strings of a request: "bogus" is not a JobRole
RoleStrings == {"CEO", "bogus"}

\* the strings that JobRole() accepts
JobRoles == {"CEO", "CTO"}

\* the config of an update_global_config_logic request
GlobalUpdates ==
    [domain : {"lead_filter"}, value : [min_company_size : Sizes, max_company_size : Sizes]]
        \cup [domain : {"enrichment"}, value : [max_retries : 0..MaxRetries]]

InitUpdate ==
    /\ up_store = DefaultStore
    /\ up_result = [op |-> "none", success |-> TRUE, valid |-> TRUE]
    /\ IdleConfig
    /\ IdleNorm
    /\ IdleDb
    /\ IdleFind
    /\ IdleEnrich
    /\ IdleFilter
    /\ IdleValidate
    /\ IdleFollowup
    /\ IdleConcurrent

\* update_global_config_logic: the fields of the request are set on the
\* loaded configuration, which is synced to the store without any validate()
UpdateGlobalConfig(config_data, synced) ==
    LET valid == IF config_data.domain = "lead_filter"
                 THEN LeadFilterValidate(config_data.value)
                 ELSE EnrichmentValidate(config_data.value)
        written == synced
    IN  /\ up_store' = IF written
                       THEN [up_store EXCEPT ![config_data.domain] = config_data.value]
                       ELSE up_store
        /\ up_result' = [op |-> "global", success |-> written, valid |-> valid]
        /\ UNCHANGED <<cfgVars, nmVars, dbVars, flVars, enVars, ftVars, vdVars, fuVars, ccVars>>

\* update_project_config_logic: the location fields of the request are set
\* on the loaded configuration, which is synced to the store without any
\* validate()
UpdateProjectConfig(raw_location, synced) ==
    LET valid == LocationValidate([raw_location |-> raw_location])
        written == synced
    IN  /\ up_store' = IF written
                       THEN [up_store EXCEPT !.location = [raw_location |-> raw_location]]
                       ELSE up_store
        /\ up_result' = [op |-> "project", success |-> written, valid |-> valid]
        /\ UNCHANGED <<cfgVars, nmVars, dbVars, flVars, enVars, ftVars, vdVars, fuVars, ccVars>>

\* update_job_roles_config without project_id: the valid roles are kept,
\* the configuration is validated and only then synced to the store
UpdateJobRoles(target_roles, custom_roles, synced) ==
    LET job_role_config == [target_roles |-> target_roles \cap JobRoles,
                            custom_roles |-> custom_roles]
        valid == JobRolesValidate(job_role_config)
        written == valid /\ synced
    IN  /\ up_store' = IF written THEN [up_store EXCEPT !.job_roles = job_role_config]
                       ELSE up_store
        /\ up_result' = [op |-> "job_roles", success |-> written, valid |-> valid]
        /\ UNCHANGED <<cfgVars, nmVars, dbVars, flVars, enVars, ftVars, vdVars, fuVars, ccVars>>

NextUpdate ==
    \/ \E config_data \in GlobalUpdates, synced \in BOOLEAN :
            UpdateGlobalConfig(config_data, synced)
    \/ \E raw_location \in {<< >>, <<" ">>, <<"berlin">>, <<"paris">>}, synced \in BOOLEAN :
            UpdateProjectConfig(raw_location, synced)
    \/ \E target_roles \in SUBSET RoleStrings, custom_roles \in SUBSET {"recruiter"},
          synced \in BOOLEAN :
            UpdateJobRoles(target_roles, custom_roles, synced)

SpecUpdate == InitUpdate /\ [][NextUpdate]_vars

\* C18: an update operation whose resulting configuration domain fails
\* validate() returns an error and leaves the stored configuration unchanged.
C18_ValidationPreventsWrite ==
    [][~up_result'.valid => (~up_result'.success /\ up_store' = up_store)]_vars

(***************************************************************************)
(* find_leads_logic with a document store that can fail on any read or     *)
(* write of an invocation, for a project that can have a blacklist of its  *)
(* own and a lead filter that bounds the company size.                     *)
(***************************************************************************)
\* the records of apollo_results['people'] of these invocations
FaultPeople ==
    {[email |-> <<"a", "@", "x.com">>, name |-> JaneDoe, organization |-> None],
     [email |-> <<"b", "@", "x.com">>, name |-> JaneDoe, organization |-> Some(AcmeOrg)],
     [email |-> <<" ", "A", "@", "x.com">>, name |-> JaneDoe, organization |-> Some(AcmeIncOrg)]}

\* the lead filters of these invocations: one of them bounds the company size
FaultFilterConfigs == FilterConfigs \cup {[DefaultLeadFilter EXCEPT !.min_company_size = Some(50)]}

\* the project can have a blacklist of its own
InitFindFaults ==
    /\ \/ db_leads = << >> /\ blacklist = {} /\ project_blacklist = {}
       \/ db_leads = << >> /\ blacklist = {} /\ project_blacklist = {<<"a", "@", "x.com">>}
       \/ db_leads = <<LegacyLead>> /\ blacklist = {<<"B", "@", "x.com">>}
            /\ project_blacklist = {}
    /\ leadCount = Len(db_leads)
    /\ IdleFind
    /\ IdleConfig
    /\ IdleNorm
    /\ IdleEnrich
    /\ IdleFilter
    /\ IdleValidate
    /\ IdleUpdate
    /\ IdleFollowup
    /\ IdleConcurrent

NextFindFaults ==
    \/ \E people \in StrsUpTo(FaultPeople, MaxBatch), filter_config \in FaultFilterConfigs,
          fault \in StoreReads \cup {"none"} :
            FindLeadsFilter(people, filter_config, fault)
    \/ \E auto_enrich \in BOOLEAN, failure \in {"none", "commit", "count"} :
            FindLeadsCommit(auto_enrich, failure)
    \/ FindLeadsReturn

SpecFindFaults == InitFindFaults /\ [][NextFindFaults]_vars

\* C19: when the document store fails while find_leads_logic reads the
\* configuration, the existing leads or the blacklist, the invocation does
\* not go on to filter, returns a failure and writes no lead.
C19_TransportErrorsAreHardFailures ==
    fl_fault # "none" =>
        /\ fl_pc # "filtered"
        /\ fl_pc = "returned" => (fl_result = "failure" /\ fl_written = << >>)

\* C20: when find_leads_logic returns, the leads it has persisted are all the
\* accepted leads and it reports success, or none and it reports failure.
C20_AllOrNothingPersistence ==
    fl_pc = "returned" =>
        \/ /\ fl_result = "success"
           /\ Len(fl_written) = Len(fl_unique)
           /\ \A i \in 1..Len(fl_unique) : fl_written[i].email = fl_unique[i].email
        \/ /\ fl_result = "failure"
           /\ fl_written = << >>

\* get_blacklisted_emails: the organization-wide list and the project's list, lowercased
get_blacklisted_emails ==
    {Lower(email) : email \in blacklist} \cup {Lower(email) : email \in project_blacklist}

\* C21: with exclude_blacklisted and no store failure, no lead that
\* find_leads_logic persists has its lowercased email on the organization-wide
\* or on the project's blacklist.
C21_BlacklistUnion ==
    (fl_pc = "filtered" /\ fl_fault = "none" /\ fl_cfg.exclude_blacklisted) =>
        \A i \in 1..Len(fl_unique) : Lower(fl_unique[i].email) \notin get_blacklisted_emails

\* C22: every result enrich_leads_logic returns carries the counts
\* leads_processed, leads_enriched and leads_failed, and on success
\* leads_processed = leads_enriched + leads_failed.
C22_CountsAlwaysReported ==
    en_pc = "done" =>
        /\ en_result.leads_processed # None
        /\ en_result.leads_enriched # None
        /\ en_result.leads_failed # None
        /\ en_result.success =>
                Val(en_result.leads_processed)
                    = Val(en_result.leads_enriched) + Val(en_result.leads_failed)

\* the stage that the stated order gives the lead at i: the first of email
\* requirement, blacklist, one person per company, company size and quality
\* that it fails, where only an existing lead or an earlier candidate that was
\* not dropped at the email or blacklist stage holds a company key
StageInOrder(i) ==
    LET lead == ft_leads[i]
    IN  IF ft_cfg.require_email /\ lead.email = << >> THEN "email"
        ELSE IF ft_cfg.exclude_blacklisted /\ lead.email # << >>
                /\ Lower(lead.email) \in {Lower(email) : email \in ft_blacklist} THEN "blacklist"
        ELSE IF ft_cfg.one_person_per_company /\ lead.company # << >>
                /\ (\/ \E k \in 1..Len(ft_existing) :
                            normalize_company_name(ft_existing[k].company)
                                = normalize_company_name(lead.company)
                    \/ \E k \in 1..(i - 1) :
                            SameKey(k, i) /\ ft_stages[k] \notin {"email", "blacklist"})
             THEN "company"
        ELSE IF should_filter_by_company_size(lead, ft_cfg) THEN "size"
        ELSE IF ~passes_quality_filters(lead) THEN "quality"
        ELSE "accept"

\* C23: every candidate is dropped by the first stage it fails in the order
\* email requirement, blacklist, one person per company, company size,
\* quality, and a candidate dropped at the email or blacklist stage holds no
\* company key against a later candidate of the same company.
C23_StageOrderShortCircuit ==
    \A i \in 1..Len(ft_stages) : ft_stages[i] = StageInOrder(i)

\* a blacklisted candidate followed by an accepted candidate of the same company
C23_Witness ==
    /\ ft_pc = "done"
    /\ ft_cfg.one_person_per_company
    /\ Len(ft_leads) = 2
    /\ SameKey(1, 2)
    /\ ft_stages = <<"blacklist", "accept">>

\* C24: _normalize_company_name removes at most one trailing suffix: after
\* lowercasing, stripping and prefix removal, the patterns are tried in order
\* (suffix by suffix, pattern by pattern) and only the first that matches is
\* removed.
C24_SingleSuffixStrip ==
    nm_pc = "once" /\ nm_in # << >> =>
        LET normalized == StripPrefixes(Strip(Lower(nm_in)), 1)
            hits == {ik \in (1..Len(suffixes)) \X (1..4) :
                        EndsWith(normalized, Patterns(suffixes[ik[1]])[ik[2]])}
            first == CHOOSE ik \in hits :
                        \A jl \in hits : ik[1] < jl[1] \/ (ik[1] = jl[1] /\ ik[2] <= jl[2])
        IN  nm_once = Strip(IF hits = {} THEN normalized
                            ELSE DropLast(normalized,
                                          Len(Patterns(suffixes[first[1]])[first[2]])))

\* the provider record gives a size that the configured range excludes
OutOfRange(person, filter_config) ==
    LET size == PayloadSize(LeadData(person))
    IN  /\ size # None
        /\ \/ /\ filter_config.min_company_size # None
              /\ Val(size) < Val(filter_config.min_company_size)
           \/ /\ filter_config.max_company_size # None
              /\ Val(size) > Val(filter_config.max_company_size)

\* C25: every candidate find_leads_logic passes from process_apollo_results
\* to apply_lead_filters carries raw_data, and no lead that it goes on to
\* persist was built from a provider record whose organization size is out of
\* the configured range.
C25_RawPayloadReachesSizeStage ==
    (fl_pc = "filtered" /\ fl_fault = "none") =>
        /\ \A i \in 1..Len(fl_processed) : fl_processed[i].raw_data # None
        /\ \A i \in 1..Len(fl_unique), j \in 1..Len(fl_people) :
                (/\ validate_lead_data(LeadData(fl_people[j]))
                 /\ clean_lead_data(LeadData(fl_people[j])).email = fl_unique[i].email
                 /\ clean_lead_data(LeadData(fl_people[j])).company = fl_unique[i].company)
                    => ~OutOfRange(fl_people[j], fl_cfg)

\* C26: LeadFilterConfig.validate() is false for every lead filter whose
\* min_company_size and max_company_size are both set with
\* min_company_size > max_company_size, also when one of them is 0: no update
\* that stores such a lead filter has found it valid.
C26_ValidateRejectsInvertedRange ==
    [][(/\ up_result'.op = "global"
        /\ up_store'.lead_filter # up_store.lead_filter
        /\ up_store'.lead_filter.min_company_size # None
        /\ up_store'.lead_filter.max_company_size # None
        /\ Val(up_store'.lead_filter.min_company_size)
                > Val(up_store'.lead_filter.max_company_size))
            => ~up_result'.valid]_vars

\* C27: at the end of apply_lead_filters with one_person_per_company, every
\* company key claimed during the batch is the key of a lead in the output.
C27_ClaimsBackedByAcceptedLeads ==
    (ft_pc = "done" /\ ft_cfg.one_person_per_company) =>
        \A key \in ft_tracker :
            \E i \in 1..Len(ft_filtered) :
                /\ ft_filtered[i].company # << >>
                /\ normalize_company_name(ft_filtered[i].company) = key

(***************************************************************************)
(* enrich_leads_logic invoked without lead_ids and without force_re_enrich *)
(* on a project whose leads find_leads_logic has persisted.                *)
(***************************************************************************)
NextEnrichDefault ==
    \/ \E enrichment_type \in enrichment_types, max_retries \in 0..MaxRetries, enabled \in BOOLEAN :
            EnrichStart(<< >>, FALSE, enrichment_type, max_retries, enabled)
    \/ \E response \in Responses : EnrichAttempt(response)
    \/ EnrichUpdate
    \/ \E committed \in BOOLEAN : EnrichCommit(committed)

SpecEnrichDefault == InitEnrich /\ [][NextEnrichDefault]_vars

\* C28: an enrich_leads_logic invocation without lead_ids and without
\* force_re_enrich, with enrichment enabled, selects every lead whose
\* enrichmentStatus is 'pending', so that no such lead stays pending.
C28_NoStuckPendingLeads ==
    (en_pc # "idle" /\ en_result.kind # "disabled") =>
        \A id \in 1..Len(db_leads) :
            db_leads[id].enrichmentStatus = "pending"
                => \E p \in 1..Len(en_queue) : en_queue[p] = id

(***************************************************************************)
(* Follow-ups: trigger_followup, process_all_followups (main.py) and       *)
(* contact_leads (contact_leads.py) on the lead documents of one project.  *)
(* lastContacted is "none", "recent" (after the follow-up cutoff date) or  *)
(* "old" (at or before it).                                                *)
(***************************************************************************)
\* largest maxFollowups setting
MaxFollowups == 2

\* most lead documents
MaxFollowupLeads == 2

\* the statuses that the three operations read or write
LeadStatuses == {"new", "emailed", "responded", "blacklisted"}

FollowupEmails == << <<"a", "@", "x.com">>, <<"b", "@", "x.com">> >>

\* the lead documents the store can hold before the operations run
FollowupLeads(email, max_followups) ==
    {[email |-> email, status |-> "new", followupCount |-> 0, lastContacted |-> "none"]}
    \cup [email : {email}, status : LeadStatuses \ {"new"}, followupCount : 0..max_followups,
          lastContacted : {"old", "recent"}]

InitFollowup ==
    /\ fu_max \in 0..MaxFollowups
    /\ \E n \in 1..MaxFollowupLeads :
            fu_leads \in {l \in [1..n -> UNION {FollowupLeads(FollowupEmails[i], fu_max) : i \in 1..n}] :
                            \A i \in 1..n : l[i].email = FollowupEmails[i]}
    /\ db_leads = << >>
    /\ leadCount = 0
    /\ blacklist \in {{}, {<<"b", "@", "x.com">>}}
    /\ project_blacklist = {}
    /\ IdleConfig
    /\ IdleNorm
    /\ IdleFind
    /\ IdleEnrich
    /\ IdleFilter
    /\ IdleValidate
    /\ IdleUpdate
    /\ IdleConcurrent

\* the update of trigger_followup, of process_all_followups and of a follow-up
\* email in update_lead_after_email
FollowedUp(lead) ==
    [lead EXCEPT !.status = "emailed", !.lastContacted = "recent",
                 !.followupCount = lead.followupCount + 1]

\* trigger_followup (main.py lines 59-122): errors leave the lead unchanged
trigger_followup(leadId) ==
    /\ leadId \in 1..Len(fu_leads)
    /\ fu_leads[leadId].status \notin {"blacklisted", "responded"}
    /\ fu_leads[leadId].followupCount < fu_max
    /\ fu_leads' = [fu_leads EXCEPT ![leadId] = FollowedUp(fu_leads[leadId])]
    /\ UNCHANGED <<fu_max, cfgVars, nmVars, dbVars, flVars, enVars, ftVars, vdVars, upVars, ccVars>>

\* process_all_followups (main.py lines 125-201)
process_all_followups ==
    /\ fu_leads' =
            [i \in 1..Len(fu_leads) |->
                LET lead_data == fu_leads[i]
                IN  IF lead_data.status \notin {"emailed", "new"} THEN lead_data
                    ELSE IF lead_data.followupCount >= fu_max THEN lead_data
                    ELSE IF lead_data.lastContacted = "recent" THEN lead_data
                    ELSE IF Lower(lead_data.email) \in blacklist
                         THEN [lead_data EXCEPT !.status = "blacklisted"]
                         ELSE FollowedUp(lead_data)]
    /\ UNCHANGED <<fu_max, cfgVars, nmVars, dbVars, flVars, enVars, ftVars, vdVars, upVars, ccVars>>

\* find_eligible_leads, as positions of lead documents
find_eligible_leads(email_type) ==
    SelectSeq(Ids(Len(fu_leads)),
              LAMBDA id : \/ email_type \in {"outreach", "auto"} /\ fu_leads[id].status = "new"
                          \/ /\ email_type \in {"followup", "auto"}
                             /\ fu_leads[id].status = "emailed"
                             /\ fu_leads[id].followupCount < fu_max
                             /\ fu_leads[id].lastContacted = "old")

\* determine_email_type
determine_email_type(lead, requested_type) ==
    IF requested_type \in {"outreach", "followup"} THEN requested_type
    ELSE IF lead.status = "new" \/ lead.followupCount = 0 THEN "outreach"
    ELSE "followup"

\* update_lead_after_email
update_lead_after_email(leads, lead_id, email_type) ==
    [leads EXCEPT ![lead_id] =
        IF email_type = "followup" THEN FollowedUp(leads[lead_id])
        ELSE [leads[lead_id] EXCEPT !.status = "emailed", !.lastContacted = "recent"]]

RECURSIVE SendEmails(_, _, _, _)
\* the loop over emails_to_send: the k-th email is sent when k is in sent
SendEmails(leads, emails_to_send, k, sent) ==
    IF k > Len(emails_to_send) THEN leads
    ELSE SendEmails(IF k \in sent
                    THEN update_lead_after_email(leads, emails_to_send[k].lead_id,
                                                 emails_to_send[k].email_type)
                    ELSE leads,
                    emails_to_send, k + 1, sent)

\* contact_leads (contact_leads.py lines 25-250): sent holds the positions of
\* the emails that were generated and that the email service sent; a
\* followupCount is not followed beyond MaxFollowups + 1
contact_leads(lead_ids, email_type, dry_run, sent) ==
    LET leads_to_contact == IF lead_ids # << >>
                            THEN SelectSeq(lead_ids, LAMBDA id : id \in 1..Len(fu_leads))
                            ELSE find_eligible_leads(email_type)
        eligible_leads == SelectSeq(leads_to_contact,
                                    LAMBDA id : Lower(fu_leads[id].email) \notin get_blacklisted_emails)
        emails_to_send == [k \in 1..Len(eligible_leads) |->
                                [lead_id |-> eligible_leads[k],
                                 email_type |-> determine_email_type(fu_leads[eligible_leads[k]],
                                                                     email_type)]]
    IN  /\ sent \subseteq 1..Len(emails_to_send)
        /\ fu_leads' = IF dry_run THEN fu_leads ELSE SendEmails(fu_leads, emails_to_send, 1, sent)
        /\ \A i \in 1..Len(fu_leads) : fu_leads'[i].followupCount <= MaxFollowups + 1
        /\ UNCHANGED <<fu_max, cfgVars, nmVars, dbVars, flVars, enVars, ftVars, vdVars, upVars, ccVars>>

\* the follow-up delay passes: every lastContacted is now before the cutoff date
DelayPasses ==
    /\ \E i \in 1..Len(fu_leads) : fu_leads[i].lastContacted = "recent"
    /\ fu_leads' = [i \in 1..Len(fu_leads) |->
                        IF fu_leads[i].lastContacted = "recent"
                        THEN [fu_leads[i] EXCEPT !.lastContacted = "old"]
                        ELSE fu_leads[i]]
    /\ UNCHANGED <<fu_max, cfgVars, nmVars, dbVars, flVars, enVars, ftVars, vdVars, upVars, ccVars>>

NextFollowup ==
    \/ \E leadId \in 1..MaxFollowupLeads : trigger_followup(leadId)
    \/ process_all_followups
    \/ \E lead_ids \in StrsUpTo(1..(Len(fu_leads) + 1), MaxFollowupLeads),
          email_type \in {"outreach", "followup", "auto"}, dry_run \in BOOLEAN,
          sent \in SUBSET (1..MaxFollowupLeads) :
            contact_leads(lead_ids, email_type, dry_run, sent)
    \/ DelayPasses

SpecFollowup == InitFollowup /\ [][NextFollowup]_vars

\* C29: after every operation each lead's followupCount is between 0 and
\* maxFollowups, and no operation sets the status of a blacklisted or
\* responded lead to emailed.
C29_FollowupBound ==
    [][\A i \in 1..Len(fu_leads) :
            /\ fu_leads'[i].followupCount >= 0
            /\ fu_leads'[i].followupCount <= fu_max
            /\ fu_leads[i].status \in {"blacklisted", "responded"}
                    => fu_leads'[i].status # "emailed"]_vars

(***************************************************************************)
(* find_leads_logic invoked concurrently for one project: each invocation  *)
(* reads the existing leads, commits its batch and then writes leadCount,  *)
(* and the document store orders these reads and writes in any way.        *)
(***************************************************************************)
\* the records of apollo_results['people'] of these invocations
ConcurrentPeople ==
    [email : {<<"a", "@", "x.com">>, <<"b", "@", "x.com">>}, name : {JaneDoe},
     organization : {None}]

InitConcurrent ==
    /\ db_leads = << >>
    /\ leadCount = 0
    /\ blacklist = {}
    /\ project_blacklist = {}
    /\ IdleConcurrent
    /\ IdleConfig
    /\ IdleNorm
    /\ IdleFind
    /\ IdleEnrich
    /\ IdleFilter
    /\ IdleValidate
    /\ IdleUpdate
    /\ IdleFollowup

\* lines 145-184 of invocation p: the existing leads are read and the
\* candidates are processed, filtered and checked for duplicates against them
ConcurrentRead(p, people) ==
    /\ cc_pc[p] = "idle"
    /\ people # << >>
    /\ cc_pc' = [cc_pc EXCEPT ![p] = "read"]
    /\ cc_existing' = [cc_existing EXCEPT ![p] = db_leads]
    /\ cc_unique' = [cc_unique EXCEPT ![p] =
            check_duplicate_leads(apply_lead_filters(process_apollo_results(people),
                                                     DefaultLeadFilter, db_leads, blacklist),
                                  db_leads)]
    /\ UNCHANGED <<cc_written, dbVars, cfgVars, nmVars, flVars, enVars, ftVars, vdVars, upVars,
                   fuVars>>

\* lines 186-213 of invocation p: the batch of unique leads is committed
ConcurrentCommit(p, auto_enrich) ==
    LET docs == [i \in 1..Len(cc_unique[p]) |->
                    prepare_lead_for_database(cc_unique[p][i], auto_enrich)]
    IN  /\ cc_pc[p] = "read"
        /\ Len(db_leads) + Len(docs) <= MaxLeads
        /\ db_leads' = db_leads \o docs
        /\ cc_written' = [cc_written EXCEPT ![p] = docs]
        /\ cc_pc' = [cc_pc EXCEPT ![p] = IF docs = << >> THEN "done" ELSE "committed"]
        /\ UNCHANGED <<cc_existing, cc_unique, leadCount, blacklist, project_blacklist, cfgVars,
                       nmVars, flVars, enVars, ftVars, vdVars, upVars, fuVars>>

\* lines 215-222 of invocation p: leadCount = len(existing_leads) + saved_count
ConcurrentCount(p) ==
    /\ cc_pc[p] = "committed"
    /\ leadCount' = Len(cc_existing[p]) + Len(cc_unique[p])
    /\ cc_pc' = [cc_pc EXCEPT ![p] = "done"]
    /\ UNCHANGED <<cc_existing, cc_unique, cc_written, db_leads, blacklist, project_blacklist,
                   cfgVars, nmVars, flVars, enVars, ftVars, vdVars, upVars, fuVars>>

\* lines 250-266 of invocation p: the result is returned
ConcurrentReturn(p) ==
    /\ cc_pc[p] = "done"
    /\ cc_pc' = [cc_pc EXCEPT ![p] = "idle"]
    /\ cc_existing' = [cc_existing EXCEPT ![p] = << >>]
    /\ cc_unique' = [cc_unique EXCEPT ![p] = << >>]
    /\ cc_written' = [cc_written EXCEPT ![p] = << >>]
    /\ UNCHANGED <<dbVars, cfgVars, nmVars, flVars, enVars, ftVars, vdVars, upVars, fuVars>>

NextConcurrent ==
    \E p \in Procs :
        \/ \E people \in StrsUpTo(ConcurrentPeople, MaxBatch) : ConcurrentRead(p, people)
        \/ \E auto_enrich \in BOOLEAN : ConcurrentCommit(p, auto_enrich)
        \/ ConcurrentCount(p)
        \/ ConcurrentReturn(p)

SpecConcurrent == InitConcurrent /\ [][NextConcurrent]_vars

\* C30: whenever no invocation is between its read and its leadCount write,
\* leadCount is the number of persisted leads of the project, and no two
\* invocations in flight have both persisted a lead with the same email.
C30_LeadCountConsistency ==
    /\ (\A p \in Procs : cc_pc[p] \in {"idle", "done"}) => leadCount = Len(db_leads)
    /\ \A p, q \in Procs :
            p # q => \A i \in 1..Len(cc_written[p]), j \in 1..Len(cc_written[q]) :
                        cc_written[p][i].email # cc_written[q][j].email

=============================================================================
